---- MODULE Spec2Model ----
(***************************************************************************)
(* Model of the QuantumComputerInterface scripts.                          *)
(*                                                                         *)
(*   SpecShor : QC.py shors_2, the period-probability computation and its  *)
(*              plot, with the locals n, r, s drawn from bounded sets.     *)
(*   SpecWord : QC.py plot_word_length, the bit/qubit table of a word.     *)
(*   SpecReal : realqc.py, the script's statements from Part 2 to the      *)
(*              parameter sweep of Part 4.                                 *)
(*                                                                         *)
(* Real numbers are fixed-point integers with Scale units to 1; a phase is *)
(* an exact fraction of a turn.                                            *)
(***************************************************************************)
EXTENDS Integers, Sequences, FiniteSets

VARIABLES pc,        \* position in the program being run
          n, r, s,   \* shors_2 locals (QC.py 163-165)
          k_values,  \* shors_2: np.arange(2**n)
          k,         \* shors_2: k_values*s/r, each entry a fraction <<num, den>>
          prob,      \* shors_2: the computed vector (or scalar)
          shown,     \* what has been rendered on screen
          saved,     \* files written
          raised,    \* the exception that ended the program, or "none"
          stdout,    \* the print statements executed, in order
          word, binary_str, table_data,            \* plot_word_length
          job_result, hardware_result, counts,     \* realqc.py
          theta_i, counts_list, cl2, cl4           \* realqc.py parameter sweep

shorVars == <<n, r, s, k_values, k, prob>>
wordVars == <<word, binary_str, table_data>>
realVars == <<job_result, hardware_result, counts, theta_i, counts_list, cl2, cl4>>
ioVars   == <<shown, saved, stdout>>

vars == <<pc, raised, shorVars, wordVars, realVars, ioVars>>

-----------------------------------------------------------------------------
(* Bounds *)

MaxN == 4
MaxR == 5
MaxS == 7
MaxOrd == 127        \* character codes 0..MaxOrd
MaxWordLen == 2      \* words of 0..MaxWordLen characters
Shots == 3           \* shots of one sampler run

(* Fixed-point unit, and pi in that unit. *)
Scale == 10^4
PiFix == (31416 * Scale) \div 10000

-----------------------------------------------------------------------------
(* Numeric helpers *)

RECURSIVE Pow2(_)
Pow2(e) == IF e = 0 THEN 1 ELSE 2 * Pow2(e - 1)

(* Python's 2**n: an int for n >= 0, the float 1/2^-n for n < 0; <<P, Q>> is P/Q. *)
TwoPow(e) == IF e >= 0 THEN <<Pow2(e), 1>> ELSE <<1, Pow2(-e)>>

Abs(a) == IF a < 0 THEN -a ELSE a

Mul(a, b) == (a * b) \div Scale

(* Taylor polynomials on [0, pi/4], x in fixed-point radians. *)
CosTaylor(x) ==
    LET x2 == Mul(x, x)
        x4 == Mul(x2, x2)
        x6 == Mul(x4, x2)
        x8 == Mul(x4, x4)
    IN  Scale - (x2 \div 2) + (x4 \div 24) - (x6 \div 720) + (x8 \div 40320)

SinTaylor(x) ==
    LET x2 == Mul(x, x)
        x3 == Mul(x2, x)
        x5 == Mul(x3, x2)
        x7 == Mul(x5, x2)
        x9 == Mul(x7, x2)
    IN  x - (x3 \div 6) + (x5 \div 120) - (x7 \div 5040) + (x9 \div 362880)

(* cos of u/(8*den) turns, 0 <= u < 8*den, by reduction to the first octant. *)
CosOct(u, den) ==
    LET u1  == IF u > 4 * den THEN 8 * den - u ELSE u
        neg == u1 > 2 * den
        u2  == IF neg THEN 4 * den - u1 ELSE u1
        rad(v) == (2 * PiFix * v) \div (8 * den)
        c   == IF u2 <= den THEN CosTaylor(rad(u2)) ELSE SinTaylor(rad(2 * den - u2))
    IN  IF neg THEN -c ELSE c

(* np.exp(2j*pi*t) for t = num/den turns, den > 0: <<re, im>>. *)
ExpTurn(num, den) ==
    LET u == (8 * num) % (8 * den)
    IN  <<CosOct(u, den), CosOct((u + 6 * den) % (8 * den), den)>>

RECURSIVE SumRe(_, _), SumIm(_, _)
SumRe(f, m) == IF m = 0 THEN 0 ELSE f[m][1] + SumRe(f, m - 1)
SumIm(f, m) == IF m = 0 THEN 0 ELSE f[m][2] + SumIm(f, m - 1)

-----------------------------------------------------------------------------
(* shors_2 (QC.py 162-176) *)

(* np.arange(2**n - 1): one entry short *)
arange_short(P, Q) == [i \in 1..(((P + Q - 1) \div Q) - 1) |-> i - 1]

(* np.arange(P/Q): 0, 1, ..., ceil(P/Q) - 1 *)
arange(P, Q) == [i \in 1..((P + Q - 1) \div Q) |-> i - 1]

(* line 168: k_values*s/r, numpy true division; den = 0 is inf or nan *)
Rescale(kv, ss, rr) == [i \in 1..Len(kv) |-> <<kv[i] * ss, rr>>]

(* the turns of x * (k - s * 2**n / r) / 2**n for k = kk[1]/kk[2], rr > 0 *)
PhaseNum(x, kk, ss, P, Q) == x * (kk[1] * Q - ss * P)
PhaseDen(rr, P) == rr * P

(* range(r + 1) in place of range(r) *)
Amplitude_OffByOne(kk, ss, rr, P, Q) ==
    LET terms == [x1 \in 1..(rr + 1) |->
                    ExpTurn(PhaseNum(x1 - 1, kk, ss, P, Q), PhaseDen(rr, P))]
    IN  <<SumRe(terms, rr + 1) \div rr, SumIm(terms, rr + 1) \div rr>>

(* range(1, r) in place of range(r) *)
Amplitude_SkipFirst(kk, ss, rr, P, Q) ==
    LET terms == [x1 \in 1..(rr - 1) |->
                    ExpTurn(PhaseNum(x1, kk, ss, P, Q), PhaseDen(rr, P))]
    IN  <<SumRe(terms, rr - 1) \div rr, SumIm(terms, rr - 1) \div rr>>

(* np.sum([... for x in range(r)], axis=0) / r at one index, rr >= 1 *)
Amplitude(kk, ss, rr, P, Q) ==
    LET terms == [x1 \in 1..rr |->
                    ExpTurn(PhaseNum(x1 - 1, kk, ss, P, Q), PhaseDen(rr, P))]
    IN  <<SumRe(terms, rr) \div rr, SumIm(terms, rr) \div rr>>

(* np.abs(z)**2 *)
AbsSq(z) == (z[1] * z[1] + z[2] * z[2]) \div Scale

ProbAt(kk, ss, rr, P, Q) == AbsSq(Amplitude(kk, ss, rr, P, Q))

(* lines 169-170.  range(r) is empty for r <= 0: np.sum([], axis=0) is the   *)
(* scalar 0.0, and 0.0 / 0 is nan (a RuntimeWarning, no exception).          *)
ComputeProbValue(kseq, ss, rr, P, Q) ==
    IF rr <= 0
    THEN [shape |-> "scalar", nan |-> (rr = 0), data |-> <<0>>]
    ELSE [shape |-> "array", nan |-> FALSE,
          data |-> [i \in 1..Len(kseq) |-> ProbAt(kseq[i], ss, rr, P, Q)]]

NoProb == [shape |-> "none", nan |-> FALSE, data |-> <<>>]

ShorIdle ==
    /\ n = 0 /\ r = 0 /\ s = 0
    /\ k_values = <<>> /\ k = <<>> /\ prob = NoProb

WordIdle == word = <<>> /\ binary_str = <<>> /\ table_data = <<>>

NoResult == [job |-> "none", counts |-> <<>>]

RealIdle ==
    /\ job_result = NoResult /\ hardware_result = NoResult /\ counts = <<>>
    /\ theta_i = 0 /\ counts_list = <<>> /\ cl2 = <<>> /\ cl4 = <<>>

IoInit == shown = <<>> /\ saved = {} /\ stdout = <<>>

InitShor ==
    /\ pc = "l167"
    /\ n \in (-1)..MaxN
    /\ r \in (-1)..MaxR
    /\ s \in (-1)..MaxS
    /\ k_values = <<>>
    /\ k = <<>>
    /\ prob = NoProb
    /\ raised = "none"
    /\ WordIdle /\ RealIdle /\ IoInit

(* line 167 *)
Arange ==
    /\ pc = "l167"
    /\ k_values' = arange(TwoPow(n)[1], TwoPow(n)[2])
    /\ pc' = "l168"
    /\ UNCHANGED <<n, r, s, k, prob, raised, wordVars, realVars, ioVars>>

(* line 168 *)
RescaleK ==
    /\ pc = "l168"
    /\ k' = Rescale(k_values, s, r)
    /\ pc' = "l169"
    /\ UNCHANGED <<n, r, s, k_values, prob, raised, wordVars, realVars, ioVars>>

(* lines 169-170 *)
ComputeProb ==
    /\ pc = "l169"
    /\ prob' = ComputeProbValue(k, s, r, TwoPow(n)[1], TwoPow(n)[2])
    /\ pc' = "l172"
    /\ UNCHANGED <<n, r, s, k_values, k, raised, wordVars, realVars, ioVars>>

(* lines 172-176: plt.plot raises ValueError when x and y differ in their   *)
(* first dimension (a scalar y counts as length 1); plt.show renders.       *)
PlotShape(p) == IF p.shape = "scalar" THEN 1 ELSE Len(p.data)

Plot ==
    /\ pc = "l172"
    /\ IF PlotShape(prob) # Len(k_values)
       THEN /\ raised' = "ValueError"
            /\ pc' = "raised"
            /\ UNCHANGED shown
       ELSE /\ shown' = Append(shown, [fig |-> "QFT Output Peaks", x |-> k_values, y |-> prob])
            /\ pc' = "returned"
            /\ UNCHANGED raised
    /\ UNCHANGED <<shorVars, wordVars, realVars, saved, stdout>>

NextShor == Arange \/ RescaleK \/ ComputeProb \/ Plot

SpecShor == InitShor /\ [][NextShor]_vars

-----------------------------------------------------------------------------
(* plot_word_length (QC.py 45-80) *)

RECURSIVE BinDigits(_)
(* bin(v)[2:] for v >= 0, as a sequence of "0"/"1" *)
BinDigits(v) ==
    IF v < 2 THEN <<IF v = 0 THEN "0" ELSE "1">>
    ELSE Append(BinDigits(v \div 2), IF v % 2 = 0 THEN "0" ELSE "1")

RECURSIVE zfill(_, _)
(* str.zfill(width): pads with "0" on the left, never truncates *)
zfill(str, width) == IF Len(str) >= width THEN str ELSE zfill(<<"0">> \o str, width)

(* line 58 *)
BinaryStr(ascii_val) == zfill(BinDigits(ascii_val), 8)

Qubit(ch) == IF ch = "0" THEN "|0>" ELSE "|1>"

(* lines 64-74: the index of binary_str each row reads (0-based, as written) *)
RowIndex(row) ==
    CASE row = 0 -> 0
      [] row = 1 -> 1
      [] row = 2 -> 1
      [] row = 3 -> 1
      [] row = 4 -> 0
      [] row = 5 -> 1
      [] row = 6 -> 0
      [] row = 7 -> 0

RowLabel(row) ==
    CASE row = 0 -> "Bit 0" [] row = 1 -> "Bit 1" [] row = 2 -> "Bit 2"
      [] row = 3 -> "Bit 3" [] row = 4 -> "Bit 4" [] row = 5 -> "Bit 5"
      [] row = 6 -> "Bit 6" [] row = 7 -> "Bit 7"

TableData(bs) ==
    [row1 \in 1..8 |->
        <<RowLabel(row1 - 1), bs[RowIndex(row1 - 1) + 1], Qubit(bs[RowIndex(row1 - 1) + 1])>>]

Words == UNION {[1..len -> 0..MaxOrd] : len \in 0..MaxWordLen}

InitWord ==
    /\ pc = "l47"
    /\ word \in Words
    /\ binary_str = <<>>
    /\ table_data = <<>>
    /\ raised = "none"
    /\ ShorIdle /\ RealIdle /\ IoInit

(* lines 47-53 *)
WordHeader ==
    /\ pc = "l47"
    /\ stdout' = stdout \o <<"beseda", "stevilo crk", "vsota bitov", "vsota qubitov">>
    /\ pc' = "l56"
    /\ UNCHANGED <<raised, shorVars, wordVars, realVars, shown, saved>>

(* lines 56-59: word[0] raises IndexError on the empty word *)
WordFirstChar ==
    /\ pc = "l56"
    /\ IF Len(word) = 0
       THEN /\ raised' = "IndexError"
            /\ pc' = "raised"
            /\ UNCHANGED <<binary_str, stdout>>
       ELSE /\ binary_str' = BinaryStr(word[1])
            /\ stdout' = Append(stdout, "prva crka")
            /\ pc' = "l62"
            /\ UNCHANGED raised
    /\ UNCHANGED <<shorVars, word, table_data, realVars, shown, saved>>

(* lines 62-78 *)
WordTable ==
    /\ pc = "l62"
    /\ table_data' = TableData(binary_str)
    /\ pc' = "l79"
    /\ UNCHANGED <<raised, shorVars, word, binary_str, realVars, ioVars>>

(* lines 79-80 *)
WordShow ==
    /\ pc = "l79"
    /\ saved' = saved \cup {"tablelett.png"}
    /\ shown' = Append(shown, [fig |-> "table", x |-> <<>>, y |-> table_data])
    /\ pc' = "returned"
    /\ UNCHANGED <<raised, shorVars, wordVars, realVars, stdout>>

NextWord == WordHeader \/ WordFirstChar \/ WordTable \/ WordShow

SpecWord == InitWord /\ [][NextWord]_vars

-----------------------------------------------------------------------------
(* realqc.py, the script's top-level statements *)

Bitstrings == {"00", "01", "10", "11"}

(* get_counts() of one run of Shots shots: the dict holds a key only for an  *)
(* observed bitstring; a count of 0 here stands for an absent key.           *)
Outcomes ==
    {c \in [Bitstrings -> 0..Shots] : c["00"] + c["01"] + c["10"] + c["11"] = Shots}

HasKey(c, b) == c[b] > 0

(* line 156: [[i, i+1, ..., i+5] for i in range(0, 10, 2)] *)
thetas == [j \in 1..5 |-> [m \in 1..6 |-> 2 * (j - 1) + (m - 1)]]

(* line 115 *)
I == 1

InitReal ==
    /\ pc = "l33"
    /\ raised = "none"
    /\ RealIdle /\ ShorIdle /\ WordIdle /\ IoInit

(* lines 33-58: the estimator job and its print *)
Estimate ==
    /\ pc = "l33"
    /\ stdout' = Append(stdout, "expectation values")
    /\ pc' = "l66"
    /\ UNCHANGED <<raised, shorVars, wordVars, realVars, shown, saved>>

(* lines 66-88: circuits, sampler, the Bell job *)
SampleBell ==
    /\ pc = "l66"
    /\ \E c \in Outcomes : job_result' = [job |-> "bell", counts |-> c]
    /\ stdout' = Append(stdout, "counts for Bell circuit")
    /\ pc' = "l91"
    /\ UNCHANGED <<raised, shorVars, wordVars, hardware_result, counts, theta_i,
                   counts_list, cl2, cl4, shown, saved>>

(* lines 91-93: the parameterized-circuit job, bound to the same name *)
SampleParam ==
    /\ pc = "l91"
    /\ \E c \in Outcomes : job_result' = [job |-> "pqc", counts |-> c]
    /\ stdout' = Append(stdout, "counts for parameterized circuit")
    /\ pc' = "l102"
    /\ UNCHANGED <<raised, shorVars, wordVars, hardware_result, counts, theta_i,
                   counts_list, cl2, cl4, shown, saved>>

(* lines 102-112: the IBM service; the account may be refused *)
ConnectIBM ==
    /\ pc = "l102"
    /\ \E ok \in BOOLEAN :
         IF ok
         THEN /\ stdout' = stdout \o <<"backends", "Basis gates", "Transpiled circuit">>
              /\ pc' = "l115"
              /\ UNCHANGED raised
         ELSE /\ raised' = "IBMAccountError"
              /\ pc' = "raised"
              /\ UNCHANGED stdout
    /\ UNCHANGED <<shorVars, wordVars, realVars, shown, saved>>

(* lines 115-130 *)
Execute ==
    /\ pc = "l115"
    /\ \E c \in Outcomes :
         hardware_result' = [job |-> (IF I = 0 THEN "noise" ELSE "hardware"), counts |-> c]
    /\ stdout' = Append(stdout, IF I = 0 THEN "Noisy simulation counts"
                                         ELSE "Real hardware counts")
    /\ pc' = "l139"
    /\ UNCHANGED <<raised, shorVars, wordVars, job_result, counts, theta_i,
                   counts_list, cl2, cl4, shown, saved>>

(* lines 139-149 *)
PlotExpectation ==
    /\ pc = "l139"
    /\ saved' = saved \cup {"expectation_values.png"}
    /\ pc' = "l152"
    /\ UNCHANGED <<raised, shorVars, wordVars, realVars, shown, stdout>>

(* lines 152-153 *)
PlotHistogram ==
    /\ pc = "l152"
    /\ shown' = Append(shown, [fig |-> "Distribucija meritev Bellovih stanj",
                               x |-> <<>>, y |-> job_result])
    /\ pc' = "l156"
    /\ UNCHANGED <<raised, shorVars, wordVars, realVars, saved, stdout>>

(* lines 156-160 *)
SweepInit ==
    /\ pc = "l156"
    /\ counts_list' = <<>> /\ cl2' = <<>> /\ cl4' = <<>>
    /\ theta_i' = 0
    /\ pc' = "l162"
    /\ UNCHANGED <<raised, shorVars, wordVars, job_result, hardware_result, counts, ioVars>>

(* lines 162-164: the next theta, or the loop's end *)
SweepRun ==
    /\ pc = "l162"
    /\ IF theta_i < Len(thetas)
       THEN /\ theta_i' = theta_i + 1
            /\ counts' \in Outcomes
            /\ pc' = "l165"
       ELSE /\ pc' = "l172"
            /\ UNCHANGED <<theta_i, counts>>
    /\ UNCHANGED <<raised, shorVars, wordVars, job_result, hardware_result,
                   counts_list, cl2, cl4, ioVars>>

(* counts[key]: the value, or KeyError *)
Lookup(key, lst, next) ==
    IF HasKey(counts, key)
    THEN /\ lst' = Append(lst, counts[key])
         /\ pc' = next
         /\ UNCHANGED raised
    ELSE /\ raised' = "KeyError"
         /\ pc' = "raised"
         /\ UNCHANGED lst

(* line 165 *)
Sweep00 ==
    /\ pc = "l165"
    /\ Lookup("00", counts_list, "l166")
    /\ UNCHANGED <<shorVars, wordVars, job_result, hardware_result, counts, theta_i,
                   cl2, cl4, ioVars>>

(* line 166 *)
Sweep01 ==
    /\ pc = "l166"
    /\ Lookup("01", cl2, "l168")
    /\ UNCHANGED <<shorVars, wordVars, job_result, hardware_result, counts, theta_i,
                   counts_list, cl4, ioVars>>

(* line 168 *)
Sweep11 ==
    /\ pc = "l168"
    /\ Lookup("11", cl4, "l162")
    /\ UNCHANGED <<shorVars, wordVars, job_result, hardware_result, counts, theta_i,
                   counts_list, cl2, ioVars>>

(* lines 172-197 *)
SweepPlots ==
    /\ pc = "l172"
    /\ saved' = saved \cup {"parameter_sweep.png", "parameter_sweep2.png",
                            "parameter_sweep4.png"}
    /\ pc' = "done"
    /\ UNCHANGED <<raised, shorVars, wordVars, realVars, shown, stdout>>

NextReal ==
    \/ Estimate \/ SampleBell \/ SampleParam \/ ConnectIBM \/ Execute
    \/ PlotExpectation \/ PlotHistogram
    \/ SweepInit \/ SweepRun \/ Sweep00 \/ Sweep01 \/ Sweep11 \/ SweepPlots

SpecReal == InitReal /\ [][NextReal]_vars

-----------------------------------------------------------------------------
(* Claims about shors_2, checked under SpecShor *)

Tol == Scale \div 100

Computed == pc \in {"l172", "returned", "raised"}

Valid == n >= 1 /\ r >= 1

RECURSIVE SumSeq(_, _)
SumSeq(q, m) == IF m = 0 THEN 0 ELSE q[m] + SumSeq(q, m - 1)

Near(a, b) == Abs(a - b) <= Tol

(* the analytic formula at outcome index kv: the phase taken on kv itself *)
FormulaAt(kv) == ProbAt(<<kv * r, r>>, s, r, TwoPow(n)[1], TwoPow(n)[2])

(* C1: for every outcome k in [0, 2^n) the computed probability is the      *)
(* formula's value with the phase argument (k - s*2^n/r) taken on the       *)
(* outcome index k itself, with no other rescaling of k.                    *)
C1_PhaseOnOutcomeIndex ==
    (Computed /\ Valid) =>
        /\ prob.shape = "array"
        /\ \A i \in 1..Len(prob.data) : Near(prob.data[i], FormulaAt(k_values[i]))

(* C2: with r <= 0 or n < 0 the computation stops with an invalid-argument  *)
(* error before any probability is computed: it never gets past its first   *)
(* statement, never holds a NaN, and never fails with another error.        *)
C2_InvalidArgumentFailsFast ==
    (r <= 0 \/ n < 0) =>
        \/ pc = "l167"
        \/ (raised = "InvalidArgument" /\ prob = NoProb)

C5_LengthIsTwoPowN ==
    (Computed /\ Valid) =>
        /\ prob.shape = "array"
        /\ Len(prob.data) = Pow2(n)
        /\ Len(k_values) = Pow2(n)
        /\ \A i \in 1..Len(k_values) : k_values[i] = i - 1

C5_Witness ==
    /\ pc = "returned" /\ n = 4 /\ r = 5 /\ s = 7
    /\ Len(prob.data) = 16
    /\ k_values[16] = 15
    /\ shown = <<[fig |-> "QFT Output Peaks", x |-> k_values, y |-> prob]>>

(* round(a / b), b > 0 *)
Round(a, b) == (2 * a + b) \div (2 * b)

(* the entry at outcome index kv (taken mod 2^n) *)
Entry(kv) == prob.data[(kv % Pow2(n)) + 1]

LocalMax(kv) == Entry(kv) >= Entry(kv - 1) /\ Entry(kv) >= Entry(kv + 1)

(* C6: in the reference scenario n = 4, r = 5, s = 7 there is a local       *)
(* maximum within one index of round(j * 2^n / r) for each j = 0..r-1.      *)
C6_PeaksAtMultiples ==
    (Computed /\ n = 4 /\ r = 5 /\ s = 7) =>
        \A j \in 0..(r - 1) :
            \E d \in {-1, 0, 1} : LocalMax(Round(j * Pow2(n), r) + d)

(* C7: for valid (n, r, s), computing the probability vector renders        *)
(* nothing, writes no file and prints nothing, up to and including its      *)
(* return.                                                                  *)
C7_NoSideEffect == Valid => (shown = <<>> /\ saved = {} /\ stdout = <<>>)

-----------------------------------------------------------------------------
(* Claims about realqc.py, checked under SpecReal *)

(* C8: when plot_histogram is called, job_result holds the Bell job's       *)
(* result; the histogram titled for the Bell states shows the Bell counts.  *)
C8_HistogramShowsBell ==
    /\ pc = "l152" => job_result.job = "bell"
    /\ \A i \in 1..Len(shown) :
         shown[i].fig = "Distribucija meritev Bellovih stanj" => shown[i].y.job = "bell"

(* C10: whatever the sampler returns, the sweep runs all 5 iterations with  *)
(* no failed lookup, and then counts_list, cl2 and cl4 hold one value per   *)
(* parameter set.                                                           *)
C10_SweepCompletes ==
    /\ pc \in {"l162", "l165", "l166", "l168", "l172", "raised"} => raised # "KeyError"
    /\ pc \in {"l172", "done"} =>
         /\ Len(counts_list) = Len(thetas)
         /\ Len(cl2) = Len(thetas)
         /\ Len(cl4) = Len(thetas)

-----------------------------------------------------------------------------
(* Claims about plot_word_length, checked under SpecWord *)

(* C9: for a non-empty word, the row labelled "Bit i" shows character i of  *)
(* the first character's 8-bit binary string in the Bit column, and |0> in  *)
(* the Qubit column exactly when that character is "0".                     *)
C9_RowShowsItsBit ==
    (pc \in {"l79", "returned"} /\ Len(word) > 0) =>
        \A i \in 0..7 :
            /\ table_data[i + 1][1] = RowLabel(i)
            /\ table_data[i + 1][2] = binary_str[i + 1]
            /\ table_data[i + 1][3] = "|0>" <=> binary_str[i + 1] = "0"

====
